---- MODULE Spec2Model ----
(***************************************************************************)
(* RDS "issues only" dashboard: rds_enhanced/handler.py run(), invoked by  *)
(* app/main.py lambda_handler().                                           *)
(*                                                                         *)
(* Python values are records [t, n, d]: t is the Python type ("None",      *)
(* "int", "float") and n/d the exact rational value (d > 0).  Byte counts  *)
(* are held in MiB so that they fit TLC's integers.  Text that the code    *)
(* lowers, strips or splits is a sequence of one-character strings; text   *)
(* that is only concatenated is a TLA+ string.                             *)
(***************************************************************************)
EXTENDS Integers, Sequences, FiniteSets, TLC

VARIABLES
    os_environ,    \* process environment read by lambda_handler and run
    env,           \* the env mapping handed to run
    webhook,       \* run's webhook argument
    cloud,         \* the account: per instance, what each lookup answers
    pc,            \* position in run
    instances,     \* handler.py:139
    rows,          \* handler.py:140
    issue_flags,   \* handler.py:141
    failing_rows,  \* handler.py:223
    card,          \* handler.py:235
    email,         \* handler.py:243 (html, txt)
    posted,        \* cards accepted by the webhook sink
    mailed,        \* messages accepted by the email sink
    result         \* value returned by run

vars == <<os_environ, env, webhook, cloud, pc, instances, rows, issue_flags,
          failing_rows, card, email, posted, mailed, result>>

----------------------------------------------------------------------------
(* Python values *)

None == [t |-> "None", n |-> 0, d |-> 1]
\* an exception in flight in place of a value
Raise == [t |-> "raise", n |-> 0, d |-> 1]
PyInt(k) == [t |-> "int", n |-> k, d |-> 1]
PyFloat(a, b) == [t |-> "float", n |-> a, d |-> b]

IsNone(v) == v.t = "None"
\* bool(v) of a number or None
Truthy(v) == v.t # "None" /\ v.n # 0
\* float(v)
ToFloat(v) == [t |-> "float", n |-> v.n, d |-> v.d]
\* isinstance(v, int)
IsInt(v) == v.t = "int"
Mul(a, b) == [t |-> "float", n |-> a.n * b.n, d |-> a.d * b.d]
Div(a, b) == IF b.n > 0 THEN [t |-> "float", n |-> a.n * b.d, d |-> a.d * b.n]
                        ELSE [t |-> "float", n |-> 0 - (a.n * b.d), d |-> a.d * (0 - b.n)]
Ge(a, b) == a.n * b.d >= b.n * a.d
Le(a, b) == a.n * b.d <= b.n * a.d
Gt(a, b) == a.n * b.d > b.n * a.d

\* f"{v:.0f}": round to the nearest integer, ties to even (v >= 0)
RoundHalfEven(v) ==
    LET q == v.n \div v.d
        r == v.n % v.d
    IN IF 2 * r < v.d THEN q
       ELSE IF 2 * r > v.d THEN q + 1
       ELSE IF q % 2 = 0 THEN q ELSE q + 1

\* int(v): truncation toward zero
Trunc(v) == IF v.n >= 0 THEN v.n \div v.d ELSE 0 - ((0 - v.n) \div v.d)

----------------------------------------------------------------------------
(* Character-sequence text *)

UpperOf == [c \in {"a", "b", "c", "e", "f", "l", "m", "n", "o", "q", "r", "s",
                   "t", "u", "x", "y"} |->
            CASE c = "a" -> "A" [] c = "b" -> "B" [] c = "c" -> "C" [] c = "e" -> "E"
              [] c = "f" -> "F" [] c = "l" -> "L" [] c = "m" -> "M" [] c = "n" -> "N"
              [] c = "o" -> "O" [] c = "q" -> "Q" [] c = "r" -> "R" [] c = "s" -> "S"
              [] c = "t" -> "T" [] c = "u" -> "U" [] c = "x" -> "X" [] c = "y" -> "Y"]

LowerChar(c) ==
    IF \E l \in DOMAIN UpperOf : UpperOf[l] = c
       THEN CHOOSE l \in DOMAIN UpperOf : UpperOf[l] = c
       ELSE c

\* str.lower()
Lower(s) == [k \in 1..Len(s) |-> LowerChar(s[k])]

IsSpace(c) == c \in {" ", "\n", "\t"}

RECURSIVE LStrip(_)
LStrip(s) == IF s # <<>> /\ IsSpace(Head(s)) THEN LStrip(Tail(s)) ELSE s

RECURSIVE RStrip(_)
RStrip(s) == IF s # <<>> /\ IsSpace(s[Len(s)]) THEN RStrip(SubSeq(s, 1, Len(s) - 1)) ELSE s

\* str.strip()
Strip(s) == RStrip(LStrip(s))

----------------------------------------------------------------------------
(* UI helpers, handler.py:16-21 *)

_dot_by(level) ==
    CASE level = "OK" -> "green"
      [] level = "WARN" -> "yellow"
      [] level = "ALERT" -> "red"
      [] OTHER -> ""

_fmt_pct(v) == IF IsNone(v) THEN "N/A" ELSE ToString(RoundHalfEven(ToFloat(v))) \o "%"
_fmt_ms(v) == IF IsNone(v) THEN "N/A" ELSE ToString(RoundHalfEven(ToFloat(v))) \o " ms"

_rds_link(region, dbid) ==
    "https://" \o region \o ".console.aws.amazon.com/rds/home?region=" \o region
        \o "#database:id=" \o dbid

\* f"{glyph} {label}"
Cell(glyph, label) == <<glyph, label>>

----------------------------------------------------------------------------
(* CloudWatch and RDS lookups, handler.py:24-45.  An answer is what the      *)
(* service gives for one call: [k |-> "error"] when the call raises, else   *)
(* [k |-> "ok", ...] with the response's content.  Datapoints are those of  *)
(* the lookback window; the window and period (lines 128-129) are passed    *)
(* through to the service and select nothing in run itself.                 *)

\* the datapoint max(dps, key=Timestamp) picks
Latest(dps) == CHOOSE p \in {dps[k] : k \in 1..Len(dps)} :
                   \A k \in 1..Len(dps) : dps[k].Timestamp <= p.Timestamp

\* lines 26-31, the body of the try
CwLatestTry(ans) ==
    IF ans.k = "error" THEN Raise
    ELSE IF ans.Datapoints = <<>> THEN None
    ELSE Latest(ans.Datapoints).Average

\* _cw_latest without its except clause
_cw_latest_uncaught(ans) == CwLatestTry(ans)

\* lines 25, 32-33: except Exception: return None
_cw_latest(ans) == IF CwLatestTry(ans) = Raise THEN None ELSE CwLatestTry(ans)

_list_db_instances(account) == [k \in 1..Len(account) |-> account[k].db]

\* an optional string: t is "None", "str" or "raise"
NoStr == [t |-> "None", s |-> ""]
Str(x) == [t |-> "str", s |-> x]
RaiseStr == [t |-> "raise", s |-> ""]

\* line 43: next((t["Value"] for t in tags if t.get("Key") == "Name"), None)
RECURSIVE FirstNameTag(_)
FirstNameTag(tags) ==
    IF tags = <<>> THEN NoStr
    ELSE IF Head(tags).Key = "Name" THEN Str(Head(tags).Value)
    ELSE FirstNameTag(Tail(tags))

\* lines 42-43, the body of the try
NameTagTry(ans) == IF ans.k = "error" THEN RaiseStr ELSE FirstNameTag(ans.TagList)

\* lines 41, 44-45: except Exception: return None
_get_name_tag(ans) == IF NameTagTry(ans) = RaiseStr THEN NoStr ELSE NameTagTry(ans)

----------------------------------------------------------------------------
(* Email helpers, handler.py:48-90 *)

IsSep(c) == c \in {",", ";"} \/ IsSpace(c)

RECURSIVE DropSeps(_)
DropSeps(s) == IF s # <<>> /\ IsSep(Head(s)) THEN DropSeps(Tail(s)) ELSE s

\* re.split(r"[,\s;]+", s)
RECURSIVE ReSplit(_, _, _)
ReSplit(s, cur, out) ==
    IF s = <<>> THEN Append(out, cur)
    ELSE IF IsSep(Head(s)) THEN ReSplit(DropSeps(s), <<>>, Append(out, cur))
    ELSE ReSplit(Tail(s), Append(cur, Head(s)), out)

RECURSIVE Dedup(_, _, _)
Dedup(parts, seen, out) ==
    IF parts = <<>> THEN out
    ELSE LET e == Strip(Head(parts))
         IN IF e # <<>> /\ Lower(e) \notin seen
               THEN Dedup(Tail(parts), seen \cup {Lower(e)}, Append(out, e))
               ELSE Dedup(Tail(parts), seen, out)

_parse_emails(value) == Dedup(ReSplit(value, <<>>, <<>>), {}, <<>>)

EnvGet(e, key, default) == IF key \in DOMAIN e THEN e[key] ELSE default

MailEnabled(e) ==
    Lower(EnvGet(e, "ENABLE_MAIL_REPORT", <<"f", "a", "l", "s", "e">>))
        \in {<<"1">>, <<"t", "r", "u", "e">>, <<"t">>, <<"y", "e", "s">>, <<"y">>}

\* _send_email_ses returning early only for a missing from-address
_send_email_ses_any_to(subject, html, text, e) ==
    IF ~MailEnabled(e) THEN <<>>
    ELSE LET frm == Strip(EnvGet(e, "MAIL_FROM", <<>>))
             tos == _parse_emails(EnvGet(e, "MAIL_TO", <<>>))
             ccs == _parse_emails(EnvGet(e, "MAIL_CC", <<>>))
             bccs == _parse_emails(EnvGet(e, "MAIL_BCC", <<>>))
         IN IF frm = <<>> THEN <<>>
            ELSE << [Source |-> frm,
                     Destination |-> [ToAddresses |-> tos, CcAddresses |-> ccs,
                                      BccAddresses |-> bccs],
                     Subject |-> subject, Html |-> html, Text |-> text] >>

\* the messages handed to SES by one call: none on an early return.  An empty
\* Cc/Bcc list stands for the key left out of Destination (lines 77-78).
_send_email_ses(subject, html, text, e) ==
    IF ~MailEnabled(e) THEN <<>>
    ELSE LET frm == Strip(EnvGet(e, "MAIL_FROM", <<>>))
             tos == _parse_emails(EnvGet(e, "MAIL_TO", <<>>))
             ccs == _parse_emails(EnvGet(e, "MAIL_CC", <<>>))
             bccs == _parse_emails(EnvGet(e, "MAIL_BCC", <<>>))
         IN IF frm = <<>> \/ tos = <<>> THEN <<>>
            ELSE << [Source |-> frm,
                     Destination |-> [ToAddresses |-> tos, CcAddresses |-> ccs,
                                      BccAddresses |-> bccs],
                     Subject |-> subject, Html |-> html, Text |-> text] >>

\* rows r[0..10] of the HTML table and of the text fallback
_build_email_html(title, rs) ==
    [html |-> [h3 |-> title,
               th |-> <<"DB", "Engine", "Public", "Encryption", "Write latency",
                        "Read latency", "CPU", "Free space", "Connections",
                        "Pending Maint", "Autoscaling">>,
               tr |-> [k \in 1..Len(rs) |->
                         <<rs[k][1], rs[k][2], rs[k][3], rs[k][4], rs[k][5], rs[k][6],
                           rs[k][7], rs[k][8], rs[k][9], rs[k][10], rs[k][11]>>]],
     txt |-> [title |-> title,
              lines |-> [k \in 1..Len(rs) |-> SubSeq(rs[k], 1, 11)]]]

----------------------------------------------------------------------------
(* run: configuration, handler.py:130-137 *)

WRITE_WARN(e) == ToFloat(EnvGet(e, "WRITE_LAT_WARN", PyInt(200)))
WRITE_ALERT(e) == ToFloat(EnvGet(e, "WRITE_LAT_ALERT", PyInt(300)))
READ_WARN(e) == ToFloat(EnvGet(e, "READ_LAT_WARN", PyInt(200)))
READ_ALERT(e) == ToFloat(EnvGet(e, "READ_LAT_ALERT", PyInt(300)))
CPU_WARN(e) == ToFloat(EnvGet(e, "CPU_WARN", PyInt(70)))
CPU_ALERT(e) == ToFloat(EnvGet(e, "CPU_ALERT", PyInt(90)))
FREE_WARN(e) == ToFloat(EnvGet(e, "FREE_PCT_WARN", PyInt(20)))
FREE_ALERT(e) == ToFloat(EnvGet(e, "FREE_PCT_ALERT", PyInt(10)))

----------------------------------------------------------------------------
(* run: one pass of the loop over instances, handler.py:143-216 *)

\* 1024**3 bytes, in MiB
GiB == 1024

\* lines 160-161: seconds to milliseconds
ToMs(lat) == IF IsNone(lat) THEN None ELSE Mul(ToFloat(lat), PyFloat(1000, 1))

\* line 162
ToPct(cpu) == IF IsNone(cpu) THEN None ELSE ToFloat(cpu)

\* FreePct with a missing input coerced to zero
FreePctZero(free_store_b, alloc_gb) ==
    IF ~IsNone(free_store_b) /\ Truthy(alloc_gb)
       THEN LET total_b == Mul(ToFloat(alloc_gb), PyInt(GiB))
            IN IF total_b.n > 0
                  THEN Mul(Div(ToFloat(free_store_b), total_b), PyFloat(100, 1))
                  ELSE PyFloat(0, 1)
       ELSE PyFloat(0, 1)

\* lines 163-166
FreePct(free_store_b, alloc_gb) ==
    IF ~IsNone(free_store_b) /\ Truthy(alloc_gb)
       THEN LET total_b == Mul(ToFloat(alloc_gb), PyInt(GiB))
            IN IF total_b.n > 0
                  THEN Mul(Div(ToFloat(free_store_b), total_b), PyFloat(100, 1))
                  ELSE None
       ELSE None

\* lines 171-173: write_alert, read_alert, cpu_alert
AlertHigh(v, cutoff) == ~IsNone(v) /\ Ge(v, cutoff)
\* line 174: free_alert
AlertLow(v, cutoff) == ~IsNone(v) /\ Le(v, cutoff)
\* AutoscaleDisabled without the isinstance tests
AutoscaleDisabledAnyNumber(alloc_gb, max_alloc_gb) ==
    ~(~IsNone(alloc_gb) /\ ~IsNone(max_alloc_gb) /\ Gt(max_alloc_gb, alloc_gb))

\* line 176
AutoscaleDisabled(alloc_gb, max_alloc_gb) ==
    ~(IsInt(alloc_gb) /\ IsInt(max_alloc_gb) /\ Gt(max_alloc_gb, alloc_gb))

\* RowHasIssue without cpu_alert
RowHasIssueNoCpu(public_alert, enc_disabled, write_alert, read_alert, cpu_alert, free_alert, autoscale_disabled) ==
    public_alert \/ enc_disabled \/ write_alert \/ read_alert
        \/ free_alert \/ autoscale_disabled

\* line 178
RowHasIssue(public_alert, enc_disabled, write_alert, read_alert, cpu_alert, free_alert, autoscale_disabled) ==
    public_alert \/ enc_disabled \/ write_alert \/ read_alert \/ cpu_alert
        \/ free_alert \/ autoscale_disabled

\* lines 209-211: the WARN arm, (v and v >= WARN)
WarnHigh(v, cutoff) == Truthy(v) /\ Ge(v, cutoff)
\* line 212: the WARN arm, (v and v <= WARN)
WarnLow(v, cutoff) == Truthy(v) /\ Le(v, cutoff)

\* lines 209-212: 'ALERT' if alert else 'WARN' if warn else 'OK'
Level(alert, warn) == IF alert THEN "ALERT" ELSE IF warn THEN "WARN" ELSE "OK"

\* sorted(names), for the action names the service uses
ActionOrder == <<"db-upgrade", "os-upgrade", "system-update">>

RECURSIVE JoinSorted(_, _)
JoinSorted(names, order) ==
    IF order = <<>> THEN ""
    ELSE LET rest == JoinSorted(names, Tail(order))
         IN IF Head(order) \notin names THEN rest
            ELSE IF rest = "" THEN Head(order)
            ELSE Head(order) \o ", " \o rest

\* lines 185-194, the body of the try; an item is its
\* PendingMaintenanceActionDetails list
PendingTry(ans) ==
    IF ans.k = "error" THEN [has |-> FALSE, txt |-> "None", raised |-> TRUE]
    ELSE LET acts == ans.PendingMaintenanceActions
             has == \E a \in 1..Len(acts) : acts[a] # <<>>
             names == UNION {{acts[a][b].Action : b \in 1..Len(acts[a])} :
                             a \in 1..Len(acts)} \ {""}
             joined == JoinSorted(names, ActionOrder)
         IN IF has THEN [has |-> TRUE, txt |-> IF joined = "" THEN "Yes" ELSE joined,
                         raised |-> FALSE]
                   ELSE [has |-> FALSE, txt |-> "None", raised |-> FALSE]

\* lines 182-196: except Exception: pass
Pending(ans) == [PendingTry(ans) EXCEPT !.raised = FALSE]

\* line 204
DbCellEmail(db_url, dbid, name_tag) ==
    "<a href='" \o db_url \o "'>" \o dbid \o "</a>"
        \o (IF name_tag.s # "" THEN "<br/><a href='" \o db_url \o "'>" \o name_tag.s \o "</a>"
                             ELSE "")
\* line 205
DbCellTeams(db_url, dbid, name_tag) ==
    "[" \o dbid \o "](" \o db_url \o ")"
        \o (IF name_tag.s # "" THEN "\n[" \o name_tag.s \o "](" \o db_url \o ")" ELSE "")

\* line 213
ConnsCell(conns) == IF conns.t \in {"int", "float"} THEN ToString(Trunc(conns)) ELSE "N/A"

Region == "us-east-1"

\* the loop body for the account's entry c: the row appended at line 215 and
\* the flag appended at line 179
LoopBody(c, e) ==
    LET db == c.db
        dbid == db.DBInstanceIdentifier
        \* (db.get("Engine") or <dash>).lower()
        engine == Lower(IF db.Engine = <<>> THEN <<"-">> ELSE db.Engine)
        public == db.PubliclyAccessible
        enc == db.StorageEncrypted
        alloc_gb == db.AllocatedStorage
        max_alloc_gb == db.MaxAllocatedStorage
        name_tag == _get_name_tag(c.tags)
        wlat == _cw_latest(c.metrics.WriteLatency)
        rlat == _cw_latest(c.metrics.ReadLatency)
        cpu == _cw_latest(c.metrics.CPUUtilization)
        free_store_b == _cw_latest(c.metrics.FreeStorageSpace)
        conns == _cw_latest(c.metrics.DatabaseConnections)
        write_ms == ToMs(wlat)
        read_ms == ToMs(rlat)
        cpu_pct == ToPct(cpu)
        free_pct == FreePct(free_store_b, alloc_gb)
        public_alert == public
        enc_disabled == ~enc
        write_alert == AlertHigh(write_ms, WRITE_ALERT(e))
        read_alert == AlertHigh(read_ms, READ_ALERT(e))
        cpu_alert == AlertHigh(cpu_pct, CPU_ALERT(e))
        free_alert == AlertLow(free_pct, FREE_ALERT(e))
        autoscale_disabled == AutoscaleDisabled(alloc_gb, max_alloc_gb)
        row_has_issue == RowHasIssue(public_alert, enc_disabled, write_alert, read_alert,
                                     cpu_alert, free_alert, autoscale_disabled)
        pending == Pending(c.pending)
        pending_lvl == IF pending.has THEN "WARN" ELSE "OK"
        pending_cell == Cell(_dot_by(pending_lvl), pending.txt)
        autoscale_lvl == IF autoscale_disabled THEN "ALERT" ELSE "OK"
        autoscale_cell == Cell(_dot_by(autoscale_lvl),
                               IF autoscale_disabled THEN "Disabled" ELSE "Enabled")
        db_url == _rds_link(Region, dbid)
        db_cell_email == DbCellEmail(db_url, dbid, name_tag)
        db_cell_teams == DbCellTeams(db_url, dbid, name_tag)
        public_cell == Cell(_dot_by(IF public_alert THEN "ALERT" ELSE "OK"),
                            IF public THEN "Yes" ELSE "No")
        enc_cell == Cell(_dot_by(IF enc_disabled THEN "ALERT" ELSE "OK"),
                         IF enc_disabled THEN "Disabled" ELSE "Enabled")
        write_cell == Cell(_dot_by(Level(write_alert, WarnHigh(write_ms, WRITE_WARN(e)))),
                           _fmt_ms(write_ms))
        read_cell == Cell(_dot_by(Level(read_alert, WarnHigh(read_ms, READ_WARN(e)))),
                          _fmt_ms(read_ms))
        cpu_cell == Cell(_dot_by(Level(cpu_alert, WarnHigh(cpu_pct, CPU_WARN(e)))),
                         _fmt_pct(cpu_pct))
        free_cell == Cell(_dot_by(Level(free_alert, WarnLow(free_pct, FREE_WARN(e)))),
                          _fmt_pct(free_pct))
        conns_cell == ConnsCell(conns)
    IN [row |-> <<db_cell_email, engine, public_cell, enc_cell, write_cell, read_cell,
                  cpu_cell, free_cell, conns_cell, pending_cell, autoscale_cell,
                  db_cell_teams>>,
        flag |-> row_has_issue,
        raised |-> \/ name_tag.t = "raise"
                   \/ \E v \in {wlat, rlat, cpu, free_store_b, conns} : v.t = "raise"
                   \/ pending.raised]

----------------------------------------------------------------------------
(* run: after the loop, handler.py:218-246 *)

\* shared.collectors.get_acct_title: used only for the display title
get_acct_title == "acct"

\* line 218
Title == get_acct_title \o " - RDS Dashboard (Issues)"

\* FilterFailing keeping every row
FilterFailingAll(rs, flags) == rs

\* FilterFailing collecting the rows in reverse
RECURSIVE FilterFailingReversed(_, _)
FilterFailingReversed(rs, flags) ==
    IF rs = <<>> \/ flags = <<>> THEN <<>>
    ELSE IF Head(flags) THEN FilterFailingReversed(Tail(rs), Tail(flags)) \o <<Head(rs)>>
    ELSE FilterFailingReversed(Tail(rs), Tail(flags))

\* line 223: [r for r, bad in zip(rows, issue_flags) if bad]
RECURSIVE FilterFailing(_, _)
FilterFailing(rs, flags) ==
    IF rs = <<>> \/ flags = <<>> THEN <<>>
    ELSE IF Head(flags) THEN <<Head(rs)>> \o FilterFailing(Tail(rs), Tail(flags))
    ELSE FilterFailing(Tail(rs), Tail(flags))

\* lines 9-14
_cell(text, bold, width) ==
    [type |-> "Column", width |-> width,
     items |-> <<[type |-> "TextBlock", text |-> text,
                  weight |-> IF bold THEN "Bolder" ELSE "Default"]>>]

headers == <<"DB", "Engine", "Public", "Encryption", "Write latency", "Read latency",
             "CPU", "Free space", "Connections", "Pending Maint", "Autoscaling">>
widths == <<6, 3, 3, 3, 3, 3, 3, 3, 3, 3, 3>>

\* TeamsRow with the latency columns exchanged
TeamsRowSwapped(r) == <<r[12], r[2], r[3], r[4], r[6], r[5], r[7], r[8], r[9], r[10], r[11]>>

\* line 233
TeamsRow(r) == <<r[12], r[2], r[3], r[4], r[5], r[6], r[7], r[8], r[9], r[10], r[11]>>

\* lines 228-237: the card's body
BuildCard(title, rs) ==
    <<[type |-> "TextBlock", text |-> title],
      [type |-> "ColumnSet",
       columns |-> [k \in 1..Len(headers) |-> _cell(headers[k], TRUE, ToString(widths[k]))]]>>
    \o [j \in 1..Len(rs) |->
          [type |-> "ColumnSet",
           columns |-> [k \in 1..Len(headers) |->
                          _cell(TeamsRow(rs[j])[k], FALSE, ToString(widths[k]))]]]

\* line 239: webhook or os.environ.get("TEAMS_WEBHOOK", "")
WebhookUrl == IF webhook # "" THEN webhook ELSE EnvGet(os_environ, "TEAMS_WEBHOOK", "")

\* shared.teams.post_to_teams: the sink takes the card
post_to_teams(url, c) == Append(posted, [url |-> url, card |-> c])

NoValue == [type |-> "unset"]

\* line 139
ListInstances ==
    /\ pc = "start"
    /\ instances' = _list_db_instances(cloud)
    /\ rows' = <<>>
    /\ issue_flags' = <<>>
    /\ pc' = "loop"
    /\ UNCHANGED <<os_environ, env, webhook, cloud, failing_rows, card, email, posted,
                   mailed, result>>

\* lines 143-216, one instance
EvalInstance ==
    /\ pc = "loop"
    /\ Len(rows) < Len(instances)
    /\ LET out == LoopBody(cloud[Len(rows) + 1], env)
       IN IF out.raised
             THEN \* an exception leaves run
                  /\ pc' = "aborted"
                  /\ UNCHANGED <<rows, issue_flags>>
             ELSE /\ rows' = Append(rows, out.row)
                  /\ issue_flags' = Append(issue_flags, out.flag)
                  /\ pc' = pc
    /\ UNCHANGED <<os_environ, env, webhook, cloud, instances, failing_rows, card,
                   email, posted, mailed, result>>

\* lines 219-220
ReturnNoInstances ==
    /\ pc = "loop"
    /\ Len(rows) = Len(instances)
    /\ rows = <<>>
    /\ result' = [ok |-> TRUE, instances |-> 0, sent |-> FALSE, reason |-> "no-instances"]
    /\ pc' = "done"
    /\ UNCHANGED <<os_environ, env, webhook, cloud, instances, rows, issue_flags,
                   failing_rows, card, email, posted, mailed>>

\* lines 223-225
ReturnNoIssues ==
    /\ pc = "loop"
    /\ Len(rows) = Len(instances)
    /\ rows # <<>>
    /\ FilterFailing(rows, issue_flags) = <<>>
    /\ failing_rows' = <<>>
    /\ result' = [ok |-> TRUE, instances |-> Len(rows), sent |-> FALSE,
                  reason |-> "no-issues"]
    /\ pc' = "done"
    /\ UNCHANGED <<os_environ, env, webhook, cloud, instances, rows, issue_flags, card,
                   email, posted, mailed>>

\* lines 223-237
RenderCard ==
    /\ pc = "loop"
    /\ Len(rows) = Len(instances)
    /\ rows # <<>>
    /\ FilterFailing(rows, issue_flags) # <<>>
    /\ failing_rows' = FilterFailing(rows, issue_flags)
    /\ card' = BuildCard(Title, FilterFailing(rows, issue_flags))
    /\ pc' = "post"
    /\ UNCHANGED <<os_environ, env, webhook, cloud, instances, rows, issue_flags, email,
                   posted, mailed, result>>

\* lines 239-240
PostCard ==
    /\ pc = "post"
    /\ posted' = IF WebhookUrl # "" THEN post_to_teams(WebhookUrl, card) ELSE posted
    /\ pc' = "email"
    /\ UNCHANGED <<os_environ, env, webhook, cloud, instances, rows, issue_flags,
                   failing_rows, card, email, mailed, result>>

\* lines 243-244
SendEmail ==
    /\ pc = "email"
    /\ LET doc == _build_email_html(Title, failing_rows)
       IN /\ email' = doc
          /\ mailed' = mailed \o _send_email_ses(Title, doc.html, doc.txt, env)
    /\ pc' = "return"
    /\ UNCHANGED <<os_environ, env, webhook, cloud, instances, rows, issue_flags,
                   failing_rows, card, posted, result>>

\* line 246
ReturnSent ==
    /\ pc = "return"
    /\ result' = [ok |-> TRUE, instances |-> Len(rows), sent |-> TRUE,
                  issues |-> Len(failing_rows)]
    /\ pc' = "done"
    /\ UNCHANGED <<os_environ, env, webhook, cloud, instances, rows, issue_flags,
                   failing_rows, card, email, posted, mailed>>

Next ==
    \/ ListInstances
    \/ EvalInstance
    \/ ReturnNoInstances
    \/ ReturnNoIssues
    \/ RenderCard
    \/ PostCard
    \/ SendEmail
    \/ ReturnSent

----------------------------------------------------------------------------
(* The environment: what lambda_handler finds in os.environ (main.py:9-11)  *)
(* and what the account holds.                                              *)

MaxInstances == 2

NoEnv == [k \in {} |-> k]
Opt(key, values) == {NoEnv} \cup {key :> v : v \in values}

Webhooks == {"", "https://hook"}

MailEnvs ==
    {a @@ b @@ c @@ d :
        a \in Opt("ENABLE_MAIL_REPORT", {<<"T", "R", "U", "E">>, <<"n", "o">>}),
        b \in Opt("MAIL_FROM", {<<" ">>, <<" ", "o", "@", "x", " ">>}),
        c \in Opt("MAIL_TO", {<<",", " ", ";">>,
                              <<"a", "@", "x", ",", "A", "@", "X", ";", " ", "b", "@", "x">>}),
        d \in Opt("MAIL_CC", {<<"c", "@", "x">>})}

\* cutoffs: the defaults; WARN cutoffs of zero with the free-space ALERT cutoff
\* below zero; ALERT cutoffs on the OK side of the WARN cutoffs
CutoffEnvs ==
    {NoEnv,
     [WRITE_LAT_WARN |-> PyInt(0), READ_LAT_WARN |-> PyInt(0), CPU_WARN |-> PyInt(0),
      FREE_PCT_ALERT |-> PyInt(-1)],
     [WRITE_LAT_WARN |-> PyInt(300), WRITE_LAT_ALERT |-> PyInt(200),
      READ_LAT_WARN |-> PyInt(300), READ_LAT_ALERT |-> PyInt(200),
      CPU_WARN |-> PyInt(90), CPU_ALERT |-> PyInt(70),
      FREE_PCT_WARN |-> PyInt(10), FREE_PCT_ALERT |-> PyInt(20)]}

Error == [k |-> "error"]
Points(dps) == [k |-> "ok", Datapoints |-> dps]
One(v) == Points(<<[Timestamp |-> 1, Average |-> v]>>)
Tags(tl) == [k |-> "ok", TagList |-> tl]
Maint(acts) == [k |-> "ok", PendingMaintenanceActions |-> acts]

Db(id, public, enc, alloc, max) ==
    [DBInstanceIdentifier |-> id, Engine |-> <<"M", "y", "S", "Q", "L">>,
     PubliclyAccessible |-> public, StorageEncrypted |-> enc,
     AllocatedStorage |-> alloc, MaxAllocatedStorage |-> max]

Metrics(w, r, c, f, n) ==
    [WriteLatency |-> w, ReadLatency |-> r, CPUUtilization |-> c,
     FreeStorageSpace |-> f, DatabaseConnections |-> n]

DbId(k) == "db" \o ToString(k)

NameTag == Tags(<<[Key |-> "env", Value |-> "prod"], [Key |-> "Name", Value |-> "orders"]>>)
SomeMaint == Maint(<<<<>>, <<[Action |-> "system-update"], [Action |-> "db-upgrade"]>>>>)

\* representative instances for the k-th place of a listing
Profiles(k) ==
    { \* healthy, every lookup answers
      [db |-> Db(DbId(k), FALSE, TRUE, PyInt(5), PyInt(10)), tags |-> NameTag,
       metrics |-> Metrics(One(PyFloat(1, 20)), One(PyFloat(1, 20)), One(PyFloat(10, 1)),
                           One(PyFloat(2560, 1)), One(PyFloat(37, 10))),
       pending |-> Maint(<<>>)],
      \* healthy, every lookup raises
      [db |-> Db(DbId(k), FALSE, TRUE, PyInt(5), PyInt(10)), tags |-> Error,
       metrics |-> Metrics(Error, Error, Error, Error, Error), pending |-> Error],
      \* healthy but for pending maintenance and WARN readings; no datapoints for some
      [db |-> Db(DbId(k), FALSE, TRUE, PyInt(5), PyInt(10)), tags |-> Tags(<<>>),
       metrics |-> Metrics(One(PyFloat(1, 4)), Points(<<>>), One(PyFloat(75, 1)),
                           Points(<<>>), Points(<<>>)),
       pending |-> SomeMaint],
      \* publicly accessible; the tag lookup and two metric fetches raise
      [db |-> Db(DbId(k), TRUE, TRUE, PyInt(5), PyInt(10)), tags |-> Error,
       metrics |-> Metrics(Error, One(PyFloat(1, 20)), Error, One(PyFloat(2560, 1)),
                           One(PyFloat(3, 1))),
       pending |-> Maint(<<<<[Action |-> ""]>>>>)],
      \* hot and nearly full; the pending-maintenance lookup raises
      [db |-> Db(DbId(k), FALSE, FALSE, PyInt(5), PyInt(10)), tags |-> NameTag,
       metrics |-> Metrics(One(PyFloat(3, 10)), One(PyFloat(1, 5)), One(PyFloat(95, 1)),
                           One(PyFloat(512, 1)), Error),
       pending |-> Error],
      \* no autoscaling headroom
      [db |-> Db(DbId(k), FALSE, TRUE, PyInt(5), None), tags |-> Tags(<<>>),
       metrics |-> Metrics(Points(<<>>), One(PyFloat(0, 1)), One(PyFloat(0, 1)),
                           One(PyFloat(5120, 1)), One(PyFloat(0, 1))),
       pending |-> Maint(<<>>)] }

RECURSIVE Listings(_)
Listings(len) ==
    IF len = 0 THEN {<<>>}
    ELSE {Append(l, c) : l \in Listings(len - 1), c \in Profiles(len)}

Accounts == UNION {Listings(len) : len \in 0..MaxInstances}

\* the state on entry to run (main.py:22): env is the copy of os.environ and
\* webhook is os.environ["TEAMS_WEBHOOK"]
InitRun(account, e, hook) ==
    /\ os_environ = ("TEAMS_WEBHOOK" :> hook) @@ e
    /\ env = os_environ
    /\ webhook = os_environ["TEAMS_WEBHOOK"]
    /\ cloud = account
    /\ pc = "start"
    /\ instances = <<>>
    /\ rows = <<>>
    /\ issue_flags = <<>>
    /\ failing_rows = <<>>
    /\ card = <<>>
    /\ email = NoValue
    /\ posted = <<>>
    /\ mailed = <<>>
    /\ result = NoValue

Init == \E account \in Accounts, e \in MailEnvs, hook \in Webhooks :
            InitRun(account, e, hook)

Spec == Init /\ [][Next]_vars

----------------------------------------------------------------------------
(* Evaluation of a single instance over the readings, storage settings and  *)
(* cutoffs that meet every branch of the loop body.                         *)

Latencies == {Error, Points(<<>>), One(PyFloat(0, 1)), One(PyFloat(1, 10)),
              One(PyFloat(1, 5)), One(PyFloat(1, 4)), One(PyFloat(3, 10)),
              Points(<<[Timestamp |-> 1, Average |-> PyFloat(3, 10)],
                       [Timestamp |-> 2, Average |-> PyFloat(1, 20)]>>)}
ReadLatencies == {Points(<<>>), One(PyFloat(0, 1)), One(PyFloat(1, 5)), One(PyFloat(3, 10))}
CpuReadings == {Points(<<>>), One(PyFloat(0, 1)), One(PyFloat(70, 1)), One(PyFloat(90, 1))}
FreeReadings == {Error, One(PyFloat(0, 1)), One(PyFloat(512, 1)), One(PyFloat(1024, 1)),
                 One(PyFloat(2560, 1))}
ConnReadings == {Points(<<>>), One(PyFloat(37, 10))}
Allocated == {None, PyInt(0), PyInt(-1), PyInt(5), PyFloat(5, 1)}
MaxAllocated == {None, PyInt(2), PyInt(5), PyInt(10), PyFloat(10, 1)}

\* every reading against two storage settings
ByReading ==
    {[db |-> Db(DbId(1), public, enc, PyInt(5), max), tags |-> NameTag,
      metrics |-> Metrics(w, r, c, f, n), pending |-> p] :
        public \in BOOLEAN, enc \in BOOLEAN, max \in {None, PyInt(10)},
        w \in Latencies, r \in ReadLatencies, c \in CpuReadings, f \in FreeReadings,
        n \in ConnReadings, p \in {Maint(<<>>), SomeMaint}}

\* every storage setting against a few free-space readings
ByStorage ==
    {[db |-> Db(DbId(1), public, enc, alloc, max), tags |-> Error,
      metrics |-> Metrics(One(PyFloat(1, 20)), One(PyFloat(1, 20)), One(PyFloat(10, 1)),
                          f, Error),
      pending |-> Error] :
        public \in BOOLEAN, enc \in BOOLEAN, alloc \in Allocated, max \in MaxAllocated,
        f \in {Points(<<>>), One(PyFloat(0, 1)), One(PyFloat(512, 1))}}

InitEval == \E c \in ByReading \cup ByStorage, e \in CutoffEnvs : InitRun(<<c>>, e, "")

NextEval == ListInstances \/ EvalInstance

SpecEval == InitEval /\ [][NextEval]_vars

----------------------------------------------------------------------------
(* Properties.  A reading is unknown when the fetch raised or gave no       *)
(* datapoint; otherwise its value is the latest datapoint's.                *)

Unknown(ans) == ans.k = "error" \/ ans.Datapoints = <<>>
Value(ans) == Latest(ans.Datapoints).Average

OkGlyph == _dot_by("OK")
WarnGlyph == _dot_by("WARN")
AlertGlyph == _dot_by("ALERT")

\* the storage settings that leave headroom: both integers, max above allocated
Headroom(db) ==
    /\ db.AllocatedStorage.t = "int"
    /\ db.MaxAllocatedStorage.t = "int"
    /\ db.MaxAllocatedStorage.n > db.AllocatedStorage.n

\* free-space percent has no value
FreeUnknown(c) ==
    \/ Unknown(c.metrics.FreeStorageSpace)
    \/ c.db.AllocatedStorage.t = "None"
    \/ c.db.AllocatedStorage.n <= 0

AllUnknown(c) ==
    /\ Unknown(c.metrics.WriteLatency)
    /\ Unknown(c.metrics.ReadLatency)
    /\ Unknown(c.metrics.CPUUtilization)
    /\ FreeUnknown(c)
    /\ Unknown(c.metrics.DatabaseConnections)

\* C1: an unknown reading is shown as OK with the label N/A (connections: N/A),
\* free-space percent is unknown when the free bytes are unknown or allocated
\* storage is missing or not positive, and an instance with nothing wrong but
\* unknown readings is not marked failing.
C1_UnknownIsOk ==
    \A i \in 1..Len(rows) :
        LET c == cloud[i]
        IN /\ Unknown(c.metrics.WriteLatency) => rows[i][5] = <<OkGlyph, "N/A">>
           /\ Unknown(c.metrics.ReadLatency) => rows[i][6] = <<OkGlyph, "N/A">>
           /\ Unknown(c.metrics.CPUUtilization) => rows[i][7] = <<OkGlyph, "N/A">>
           /\ FreeUnknown(c) => rows[i][8] = <<OkGlyph, "N/A">>
           /\ Unknown(c.metrics.DatabaseConnections) => rows[i][9] = "N/A"
           /\ (/\ AllUnknown(c)
               /\ ~c.db.PubliclyAccessible
               /\ c.db.StorageEncrypted
               /\ Headroom(c.db)) => ~issue_flags[i]

C1_Witness ==
    /\ Len(rows) = 1
    /\ AllUnknown(cloud[1])
    /\ "CPU_WARN" \in DOMAIN env
    /\ ~issue_flags[1]

\* the value a latency reading has in milliseconds
InMs(ans) == PyFloat(Value(ans).n * 1000, Value(ans).d)
\* free bytes over allocated bytes, in percent
InPct(c) ==
    PyFloat(Value(c.metrics.FreeStorageSpace).n * 100 * c.db.AllocatedStorage.d,
            Value(c.metrics.FreeStorageSpace).d * c.db.AllocatedStorage.n * 1024)

AtLeast(v, cutoff) == v.n * cutoff.d >= cutoff.n * v.d
AtMost(v, cutoff) == v.n * cutoff.d <= cutoff.n * v.d

StatusHigh(v, warn, alert) ==
    IF AtLeast(v, alert) THEN "ALERT" ELSE IF AtLeast(v, warn) THEN "WARN" ELSE "OK"
StatusLow(v, warn, alert) ==
    IF AtMost(v, alert) THEN "ALERT" ELSE IF AtMost(v, warn) THEN "WARN" ELSE "OK"

\* C2: for every known reading, zero included, the cell shows ALERT when the
\* value meets the ALERT cutoff, else WARN when it meets the WARN cutoff, else OK
\* (>= for latencies and CPU, <= for free space).
C2_CellStatus ==
    \A i \in 1..Len(rows) :
        LET c == cloud[i]
            m == c.metrics
        IN /\ ~Unknown(m.WriteLatency) =>
                 rows[i][5][1] = _dot_by(StatusHigh(InMs(m.WriteLatency),
                                                    WRITE_WARN(env), WRITE_ALERT(env)))
           /\ ~Unknown(m.ReadLatency) =>
                 rows[i][6][1] = _dot_by(StatusHigh(InMs(m.ReadLatency),
                                                    READ_WARN(env), READ_ALERT(env)))
           /\ ~Unknown(m.CPUUtilization) =>
                 rows[i][7][1] = _dot_by(StatusHigh(Value(m.CPUUtilization),
                                                    CPU_WARN(env), CPU_ALERT(env)))
           /\ ~FreeUnknown(c) =>
                 rows[i][8][1] = _dot_by(StatusLow(InPct(c), FREE_WARN(env), FREE_ALERT(env)))

\* the dimensions that decide failing, by their cells
BadDimensions(r) ==
    {col \in {3, 4, 5, 6, 7, 8, 11} : r[col][1] = AlertGlyph}

\* C3: an instance is marked failing exactly when one of public access,
\* encryption, write latency, read latency, CPU, free space or autoscaling shows
\* ALERT; WARN cells, pending maintenance among them, never do it, and an
\* instance that is not failing is not among the failing rows.
C3_FailingIffAlert ==
    \A i \in 1..Len(rows) :
        /\ issue_flags[i] <=> BadDimensions(rows[i]) # {}
        /\ rows[i][3][1] = AlertGlyph <=> cloud[i].db.PubliclyAccessible
        /\ rows[i][4][1] = AlertGlyph <=> ~cloud[i].db.StorageEncrypted
        /\ rows[i][10][1] \in {OkGlyph, WarnGlyph}
        /\ ~issue_flags[i] =>
              \A k \in 1..Len(FilterFailing(rows, issue_flags)) :
                  FilterFailing(rows, issue_flags)[k] # rows[i]

C3_Witness ==
    /\ Len(rows) = 1
    /\ rows[1][10][1] = WarnGlyph
    /\ rows[1][5][1] = WarnGlyph
    /\ BadDimensions(rows[1]) = {}
    /\ ~issue_flags[1]

\* C10: autoscaling shows Enabled exactly when allocated and max-allocated
\* storage are both integers with max above allocated; anything else shows
\* Disabled with the ALERT glyph and marks the instance failing.
C10_Autoscaling ==
    \A i \in 1..Len(rows) :
        IF Headroom(cloud[i].db)
           THEN rows[i][11] = <<OkGlyph, "Enabled">>
           ELSE rows[i][11] = <<AlertGlyph, "Disabled">> /\ issue_flags[i]

C10_Witness ==
    /\ Len(rows) = 1
    /\ cloud[1].db.AllocatedStorage = PyInt(5)
    /\ cloud[1].db.MaxAllocatedStorage = PyFloat(10, 1)
    /\ rows[1][11] = <<AlertGlyph, "Disabled">>
    /\ ~cloud[1].db.PubliclyAccessible
    /\ cloud[1].db.StorageEncrypted
    /\ issue_flags[1]

----------------------------------------------------------------------------
(* Properties of a whole run *)

\* run is past the point where the failing rows are rendered
Reporting == pc \in {"post", "email", "return"} \/ (pc = "done" /\ "issues" \in DOMAIN result)
\* run has built both documents
Rendered == pc = "return" \/ (pc = "done" /\ "issues" \in DOMAIN result)

Failing == {i \in 1..Len(rows) : BadDimensions(rows[i]) # {}}
\* the k-th failing instance in listing order
NthFailing(k) == CHOOSE i \in Failing : Cardinality({j \in Failing : j < i}) = k - 1

CardText(k, col) == card[k + 2].columns[col].items[1].text

\* C4: an empty listing ends in no-instances and a listing without a failing
\* instance in no-issues, and in no state of such a run has a card been posted
\* or an email sent: the delivery steps come only after every instance was
\* evaluated and one of them is failing.
C4_NoDeliveryWithoutFailing ==
    /\ (pc \in {"post", "email", "return"} \/ posted # <<>> \/ mailed # <<>>) =>
           Len(rows) = Len(cloud) /\ Failing # {}
    /\ (pc = "done" /\ cloud = <<>>) =>
           /\ result = [ok |-> TRUE, instances |-> 0, sent |-> FALSE,
                        reason |-> "no-instances"]
           /\ posted = <<>> /\ mailed = <<>>
    /\ (pc = "done" /\ cloud # <<>> /\ Failing = {}) =>
           /\ result = [ok |-> TRUE, instances |-> Len(cloud), sent |-> FALSE,
                        reason |-> "no-issues"]
           /\ posted = <<>> /\ mailed = <<>>

C4_Witness ==
    /\ pc = "done"
    /\ Len(cloud) = 2
    /\ Failing = {}
    /\ webhook # ""
    /\ _send_email_ses("s", "h", "t", env) # <<>>
    /\ result.sent = FALSE

\* C5: sent = true exactly when a card was posted or an email handed over
\* during the run; instances is the number of listed instances and issues the
\* number of failing ones.
C5_SentMeansDelivered ==
    pc = "done" =>
        /\ result.sent <=> (posted # <<>> \/ mailed # <<>>)
        /\ result.instances = Len(cloud)
        /\ "issues" \in DOMAIN result => result.issues = Cardinality(Failing)

\* C6: the failing rows are exactly the failing instances' rows in listing
\* order, none when every instance passes, and the card's and the email's rows
\* follow them one for one.
C6_FilterKeepsOrder ==
    /\ \A i \in 1..Len(rows) :
           rows[i][12] = DbCellTeams(_rds_link(Region, cloud[i].db.DBInstanceIdentifier),
                                     cloud[i].db.DBInstanceIdentifier,
                                     _get_name_tag(cloud[i].tags))
    /\ (Reporting \/ pc = "done") =>
           /\ Len(failing_rows) = Cardinality(Failing)
           /\ \A k \in 1..Len(failing_rows) : failing_rows[k] = rows[NthFailing(k)]
    /\ Reporting =>
           /\ Len(card) = 2 + Cardinality(Failing)
           /\ \A k \in 1..Cardinality(Failing) : CardText(k, 1) = rows[NthFailing(k)][12]
    /\ Rendered =>
           /\ Len(email.html.tr) = Cardinality(Failing)
           /\ Len(email.txt.lines) = Cardinality(Failing)
           /\ \A k \in 1..Cardinality(Failing) :
                  /\ email.html.tr[k][1] = rows[NthFailing(k)][1]
                  /\ email.txt.lines[k][1] = rows[NthFailing(k)][1]

C6_Witness ==
    /\ pc = "done"
    /\ Len(rows) = 2
    /\ Failing = {1, 2}
    /\ Len(failing_rows) = 2
    /\ failing_rows[1] # failing_rows[2]
    /\ posted # <<>>
    /\ mailed # <<>>

\* C7: the card and the email (table and text fallback) hold the same number
\* of rows in the same order and the same content in every column but the DB
\* link, in the same column order; the DB link differs in markup only.
C7_CardEmailAgree ==
    Rendered =>
        /\ Len(card) - 2 = Len(failing_rows)
        /\ Len(email.html.tr) = Len(failing_rows)
        /\ Len(email.txt.lines) = Len(failing_rows)
        /\ \A col \in 1..11 : card[2].columns[col].items[1].text = email.html.th[col]
        /\ \A k \in 1..Len(failing_rows) :
               /\ Len(card[k + 2].columns) = 11
               /\ Len(email.html.tr[k]) = 11
               /\ Len(email.txt.lines[k]) = 11
               /\ \A col \in 2..11 :
                      /\ CardText(k, col) = email.html.tr[k][col]
                      /\ CardText(k, col) = email.txt.lines[k][col]
                      /\ CardText(k, col) = failing_rows[k][col]
               /\ CardText(k, 1) = failing_rows[k][12]
               /\ email.html.tr[k][1] = failing_rows[k][1]
               /\ email.txt.lines[k][1] = failing_rows[k][1]
               /\ CardText(k, 1) # email.html.tr[k][1]
        /\ \A k \in 1..Len(posted) : posted[k].card = card
        /\ \A k \in 1..Len(mailed) : mailed[k].Html = email.html /\ mailed[k].Text = email.txt

C7_Witness ==
    /\ pc = "done"
    /\ Len(failing_rows) = 2
    /\ failing_rows[2][5] # failing_rows[2][6]
    /\ failing_rows[1][10][1] = WarnGlyph
    /\ posted # <<>>
    /\ mailed # <<>>

AnswerFailed(ans) == ans.k = "error"

\* C8: whichever lookups fail, run does not abort: a failed metric fetch shows
\* N/A, a failed tag lookup leaves the DB cell without a name, a failed
\* pending-maintenance lookup shows no pending action, no exception leaves
\* run, and it returns with every listed instance evaluated and one of the
\* outcomes no-instances, no-issues or sent.
C8_LookupFailuresDoNotAbort ==
    /\ pc # "aborted"
    /\ pc \in {"start", "loop", "post", "email", "return", "done"}
    /\ Len(rows) <= Len(cloud)
    /\ \A i \in 1..Len(rows) :
           LET c == cloud[i]
           IN /\ AnswerFailed(c.metrics.WriteLatency) => rows[i][5] = <<OkGlyph, "N/A">>
              /\ AnswerFailed(c.metrics.ReadLatency) => rows[i][6] = <<OkGlyph, "N/A">>
              /\ AnswerFailed(c.metrics.CPUUtilization) => rows[i][7] = <<OkGlyph, "N/A">>
              /\ AnswerFailed(c.metrics.FreeStorageSpace) => rows[i][8] = <<OkGlyph, "N/A">>
              /\ AnswerFailed(c.metrics.DatabaseConnections) => rows[i][9] = "N/A"
              /\ AnswerFailed(c.tags) =>
                     rows[i][12] = "[" \o c.db.DBInstanceIdentifier \o "]("
                                       \o _rds_link(Region, c.db.DBInstanceIdentifier) \o ")"
              /\ AnswerFailed(c.pending) => rows[i][10] = <<OkGlyph, "None">>
    /\ pc = "done" =>
           /\ Len(rows) = Len(cloud)
           /\ \/ result = [ok |-> TRUE, instances |-> 0, sent |-> FALSE,
                           reason |-> "no-instances"]
              \/ result = [ok |-> TRUE, instances |-> Len(cloud), sent |-> FALSE,
                           reason |-> "no-issues"]
              \/ result = [ok |-> TRUE, instances |-> Len(cloud), sent |-> TRUE,
                           issues |-> Cardinality(Failing)]

C8_Witness ==
    /\ pc = "done"
    /\ Len(rows) = 2
    /\ AnswerFailed(cloud[1].tags)
    /\ AnswerFailed(cloud[1].pending)
    /\ \A m \in DOMAIN cloud[1].metrics : AnswerFailed(cloud[1].metrics[m])
    /\ AnswerFailed(cloud[2].metrics.DatabaseConnections)
    /\ result.sent

\* the mail configuration: enabled, a from-address, a To recipient
FromGiven == \E k \in 1..Len(EnvGet(env, "MAIL_FROM", <<>>)) :
                 ~IsSpace(EnvGet(env, "MAIL_FROM", <<>>)[k])
ToGiven == \E k \in 1..Len(EnvGet(env, "MAIL_TO", <<>>)) :
               ~IsSep(EnvGet(env, "MAIL_TO", <<>>)[k])
MailConfigured == MailEnabled(env) /\ FromGiven /\ ToGiven

\* C9: with a failing instance the email is sent exactly when mail is enabled,
\* the from-address is not empty and the To list is not empty; sent or skipped,
\* the card goes out in the same cases with the same content and the result is
\* the same.
C9_EmailSkipIndependent ==
    /\ Rendered =>
           /\ Len(mailed) = IF MailConfigured THEN 1 ELSE 0
           /\ \A k \in 1..Len(mailed) :
                  /\ mailed[k].Source # <<>>
                  /\ mailed[k].Destination.ToAddresses # <<>>
                  /\ mailed[k].Html = email.html
           /\ posted = IF webhook # ""
                          THEN <<[url |-> webhook, card |-> BuildCard(Title, failing_rows)]>>
                          ELSE <<>>
    /\ (pc = "done" /\ "issues" \in DOMAIN result) =>
           result = [ok |-> TRUE, instances |-> Len(cloud), sent |-> TRUE,
                     issues |-> Len(failing_rows)]
    /\ ~Rendered => mailed = <<>>

C9_Witness ==
    /\ pc = "done"
    /\ "issues" \in DOMAIN result
    /\ MailEnabled(env)
    /\ FromGiven
    /\ "MAIL_TO" \in DOMAIN env
    /\ ~ToGiven
    /\ mailed = <<>>
    /\ posted # <<>>

====
